---- MODULE Spec2Model ----
(***************************************************************************)
(* Runtime interaction and readiness subsystem of the 3D scene page.       *)
(*                                                                         *)
(* Two variants of the script exist in the repository: src/main.js (the    *)
(* one index.html loads) and src/unnamed/part_000 (an earlier variant with *)
(* the same structure).  The variable `variant` selects which one a        *)
(* behaviour runs; every place where the two differ is a branch on it.     *)
(*                                                                         *)
(* Units (all quantities are integers):                                    *)
(*   position   1 unit = 1/5000000 world unit  (50 world = 250000000)      *)
(*   velocity   1 unit = 0.0001 world units per second                     *)
(*   time       1 unit = 0.01 second                                       *)
(*   direction  a unit vector is given in fifths (<<0,0,-5>> is -z)        *)
(*   wheel/touch displacement  1 unit = 0.01 px                            *)
(* so that velocity*time*direction is a position, exactly.                 *)
(***************************************************************************)
EXTENDS Integers, Sequences, FiniteSets, TLC

VARIABLES
    variant,            \* "main" (src/main.js) or "legacy" (src/unnamed/part_000)
    scenario,           \* which events the environment produces (see Scenarios)
    \* --- THREE.LoadingManager and the two loads that use it
    itemsTotal, itemsLoaded, isLoading,
    modelStage,         \* "fetching" | "parsing" | "loaded" | "failed"
    audioStage,         \* "none" | "fetching" | "decoding" | "ready" | "failed"
    revealTimers,       \* pending setTimeout(..., 500) of loadingManager.onLoad
    \* --- DOM overlay
    progressText, progressDisplay, buttonDisplay, buttonHidden, buttonText,
    overlayHidden,
    \* --- readiness and audio flags
    isCameraLoaded, sceneReady, listener, ctxState, audioContextResumed,
    backgroundSound, soundPlaying, pendingResume,
    \* --- frame loop
    rafPending,         \* animate callbacks handed to requestAnimationFrame
    callPending,        \* TRUE between startExperience's animate() call and its body
    tornDown,
    \* --- camera and input state
    camera,             \* [src, pos, fwd] ; src = "none" before the model is loaded
    keyStates, scrollVelocityX, isTouching, touchStartY, touches,
    mouse,              \* [ndc, px] pointer position
    viewport,
    \* --- hover state
    isSafari,           \* user agent test of main.js line 19
    video,              \* the <video> element created for each mesh name
    videoMeshes, videoElements, canvasTextureObjects,
    currentlyHoveredVideo, infoPanel,
    \* --- history (observers, never read by the program)
    hist

vars == << variant, scenario, itemsTotal, itemsLoaded, isLoading, modelStage, audioStage,
           revealTimers, progressText, progressDisplay, buttonDisplay,
           buttonHidden, buttonText, overlayHidden, isCameraLoaded, sceneReady,
           listener, ctxState, audioContextResumed, backgroundSound, soundPlaying,
           pendingResume, rafPending, callPending, tornDown, camera, keyStates,
           scrollVelocityX, isTouching, touchStartY, touches, mouse, viewport,
           isSafari, video, videoMeshes, videoElements, canvasTextureObjects,
           currentlyHoveredVideo, infoPanel, hist >>

stageVars == << modelStage, audioStage >>
camVars   == << isCameraLoaded, camera, listener, backgroundSound >>
inputVars == << keyStates, scrollVelocityX, isTouching, touchStartY, touches,
                mouse, viewport >>
hoverVars == << video, videoMeshes, videoElements, canvasTextureObjects,
                currentlyHoveredVideo, infoPanel >>

(***************************************************************************)
(* Bounds of the model.                                                    *)
(***************************************************************************)
MaxClicks   == 2        \* unlock gestures in a behaviour
MaxTicks    == 3        \* animation frames that run their body
MaxInputs   == 2        \* key, wheel, touch and pointer events

(***************************************************************************)
(* Scenarios.  The environment of the page is large (loads that fail or    *)
(* succeed in any order, gestures, four kinds of input, frames of any      *)
(* length), so a behaviour explores one part of it in depth:               *)
(*   readiness   every outcome of the loads, of resume() and of the sound, *)
(*               and at most one input event at any time;                  *)
(*   navigation  loads that succeed; key and wheel input once the overlay  *)
(*               is gone;                                                  *)
(*   touch       loads that succeed; touch input (one event more than the  *)
(*               other kinds) once the overlay is gone;                    *)
(*   hover       loads that succeed, both texture variants, play requests *)
(*               that are refused; pointer input and the D key once the    *)
(*               overlay is gone; leaving the page;                        *)
(*   leaving     loads that succeed, both texture variants with their      *)
(*               sampling callbacks and video errors; repeated gestures    *)
(*               and one pointer or wheel event around leaving the page.   *)
(* Outside readiness the sound is decoded before the reveal timer fires.    *)
(* The program's handlers are the same in all five.                        *)
(***************************************************************************)
Scenarios == {"readiness", "navigation", "touch", "hover", "leaving"}

Faults == scenario \in {"readiness", "hover"}
InputBudget == CASE scenario \in {"readiness", "leaving"} -> 1
                 [] scenario = "touch" -> MaxInputs + 1
                 [] OTHER -> MaxInputs
ClickBudget == IF scenario \in {"readiness", "leaving"} THEN MaxClicks ELSE 1
MotionInput == scenario \in {"readiness", "navigation", "leaving"}
TouchInput == scenario \in {"readiness", "touch"}
DecodedFirst == scenario = "readiness" \/ audioStage # "decoding"
PointerInput == scenario \in {"readiness", "hover", "leaving"}
\* the hover scenario moves the camera only sideways, past the planes
ScenarioKeys == CASE scenario = "hover" -> {"D"}
                  [] scenario = "readiness" -> {"W"}
                  [] scenario = "navigation" -> {"W", "A", "S", "D"}
                  [] scenario \in {"touch", "leaving"} -> {}

Abs(n) == IF n < 0 THEN -n ELSE n
Max(a, b) == IF a >= b THEN a ELSE b
Min(a, b) == IF a <= b THEN a ELSE b

(***************************************************************************)
(* Program constants (main.js lines 198, 236-243; part_000 lines 111-117). *)
(***************************************************************************)
videoPlanes == {"lanternBugfly_webm", "lunaMoth_webm", "tigerButterfly_webm"}

moveSpeed  == 30000         \* 3.0 world/s, as position units per time unit and fifth
minCameraX == -250000000    \* -50
maxCameraX == 250000000     \*  50
maxCameraZ == IF variant = "main" THEN 8750000 ELSE 7250000      \* 1.75 | 1.45
minCameraZ == -maxCameraZ
scrollSensitivity      == IF variant = "main" THEN 1 ELSE 2      \* 0.01 | 0.02
touchScrollSensitivity == 1                                      \* 0.01
scrollDampingNum == 3                                            \* 0.75 = 3/4 | 0.60 = 3/5
scrollDampingDen == IF variant = "main" THEN 4 ELSE 5
scrollEpsilon    == IF variant = "main" THEN 1 ELSE 10           \* 0.0001 | 0.001
fallbackCameraZ  == 25000000                                     \* position.z = 5

(***************************************************************************)
(* The part of the page that the loading and unlock handlers read and      *)
(* write one after the other within one event: a handler is an operator    *)
(* from this record to this record, so that handlers compose in the order  *)
(* the code calls them.                                                    *)
(***************************************************************************)
Page ==
    [ itemsTotal |-> itemsTotal, itemsLoaded |-> itemsLoaded, isLoading |-> isLoading,
      revealTimers |-> revealTimers,
      progressText |-> progressText, progressDisplay |-> progressDisplay,
      buttonDisplay |-> buttonDisplay, buttonHidden |-> buttonHidden,
      buttonText |-> buttonText, overlayHidden |-> overlayHidden,
      sceneReady |-> sceneReady, audioContextResumed |-> audioContextResumed,
      soundPlaying |-> soundPlaying, callPending |-> callPending, hist |-> hist ]

SetPage(p) ==
    /\ itemsTotal' = p.itemsTotal
    /\ itemsLoaded' = p.itemsLoaded
    /\ isLoading' = p.isLoading
    /\ revealTimers' = p.revealTimers
    /\ progressText' = p.progressText
    /\ progressDisplay' = p.progressDisplay
    /\ buttonDisplay' = p.buttonDisplay
    /\ buttonHidden' = p.buttonHidden
    /\ buttonText' = p.buttonText
    /\ overlayHidden' = p.overlayHidden
    /\ sceneReady' = p.sceneReady
    /\ audioContextResumed' = p.audioContextResumed
    /\ soundPlaying' = p.soundPlaying
    /\ callPending' = p.callPending
    /\ hist' = p.hist

(***************************************************************************)
(* Loading manager callbacks (main.js 137-162).                            *)
(***************************************************************************)
\* a percentage that drops the fraction instead of rounding to nearest
FloorPercent(loaded, total) == (100 * loaded) \div total

\* Math.round(itemsLoaded / itemsTotal * 100): nearest integer, halves upward
RoundPercent(loaded, total) == (200 * loaded + total) \div (2 * total)

onStart(p) ==
    [p EXCEPT !.progressText = <<"percent", 0>>, !.buttonDisplay = "none"]

onLoad(p) ==
    [p EXCEPT !.progressText = <<"complete", 0>>,
              !.revealTimers = @ + 1,
              !.hist.completed = TRUE]

onProgress(p) ==
    LET progress == RoundPercent(p.itemsLoaded, p.itemsTotal)
    IN  [p EXCEPT !.progressText = <<"percent", progress>>,
                  !.hist.reported = <<p.itemsLoaded, p.itemsTotal, progress>>,
                  !.hist.hundred = @ \/ progress = 100]

\* a manager error callback that also brings the overlay back
onErrorShowsOverlay(p) ==
    [p EXCEPT !.progressText = <<"error", 0>>,
              !.buttonDisplay = "none",
              !.overlayHidden = FALSE,
              !.hist.failed = TRUE]

onError(p) ==
    [p EXCEPT !.progressText = <<"error", 0>>,
              !.buttonDisplay = "none",
              !.hist.failed = TRUE]

\* a reveal timer that starts the experience itself instead of waiting for
\* the gesture
onLoadTimeoutStarts(p) ==
    [p EXCEPT !.progressDisplay = "none",
              !.buttonDisplay = "block",
              !.revealTimers = @ - 1,
              !.overlayHidden = TRUE,
              !.sceneReady = TRUE,
              !.callPending = isCameraLoaded,
              !.hist.revealed = TRUE,
              !.hist.loopStarts = @ + (IF isCameraLoaded THEN 1 ELSE 0)]

\* the timeout callback of onLoad (main.js 146-149)
onLoadTimeout(p) ==
    [p EXCEPT !.progressDisplay = "none",
              !.buttonDisplay = "block",
              !.revealTimers = @ - 1,
              !.hist.revealed = TRUE,
              !.hist.revealedAfterFailure = @ \/ p.hist.failed]

(***************************************************************************)
(* THREE.LoadingManager (three 0.164.1, pinned by index.html line 86): the *)
(* collaborator that calls the callbacks above.                            *)
(***************************************************************************)
itemStart(p) ==
    LET q == [p EXCEPT !.itemsTotal = @ + 1]
        r == IF ~p.isLoading THEN onStart(q) ELSE q
    IN  [r EXCEPT !.isLoading = TRUE]

itemEnd(p) ==
    LET q == onProgress([p EXCEPT !.itemsLoaded = @ + 1])
    IN  IF q.itemsLoaded = q.itemsTotal
        THEN onLoad([q EXCEPT !.isLoading = FALSE])
        ELSE q

itemError(p) == onError(p)

(***************************************************************************)
(* Unlock gesture (main.js 334-392, part_000 158-220).                     *)
(***************************************************************************)
\* `throws`: whether backgroundSound.play() raises inside the try block
playBackgroundSound(p, throws) ==
    IF backgroundSound /\ p.audioContextResumed /\ ~p.soundPlaying
    THEN IF throws
         THEN [p EXCEPT !.hist.ambientThrew = TRUE]
         ELSE [p EXCEPT !.soundPlaying = TRUE,
                        !.hist.ambientStarts = @ + 1]
    ELSE p

\* startExperience without its `if (!sceneReady)` guard
startExperienceUnguarded(p) ==
    LET q == [p EXCEPT !.overlayHidden = TRUE, !.sceneReady = TRUE]
    IN  IF isCameraLoaded
        THEN [q EXCEPT !.callPending = TRUE,
                       !.hist.loopStarts = @ + 1,
                       !.hist.readyCount = @ + 1]
        ELSE [q EXCEPT !.hist.cameraError = TRUE]

startExperience(p) ==
    IF ~p.sceneReady
    THEN LET q == [p EXCEPT !.overlayHidden = TRUE, !.sceneReady = TRUE]
         IN  IF isCameraLoaded
             THEN \* clock.start(); animate()
                  [q EXCEPT !.callPending = TRUE,
                            !.hist.loopStarts = @ + 1,
                            !.hist.readyCount = @ + 1]
             ELSE IF variant = "main"
                  THEN [q EXCEPT !.overlayHidden = FALSE,
                                 !.progressText = <<"cameraFailed", 0>>,
                                 !.progressDisplay = "block",
                                 !.buttonDisplay = "none",
                                 !.hist.cameraError = TRUE]
                  ELSE [q EXCEPT !.hist.cameraError = TRUE]   \* alert(...)
    ELSE p

(***************************************************************************)
(* Vectors: positions and directions are triples <<x, y, z>>.              *)
(***************************************************************************)
VAdd(a, b) == << a[1] + b[1], a[2] + b[2], a[3] + b[3] >>
VScale(a, k) == << a[1] * k, a[2] * k, a[3] * k >>

clampX(x) == Max(minCameraX, Min(maxCameraX, x))
clampZ(z) == Max(minCameraZ, Min(maxCameraZ, z))

\* right.crossVectors(up, forward).normalize().negate() with up = (0, 1, 0)
\* (main.js 676): cross = (f.z, 0, -f.x); normalize() divides by the length,
\* or by 1 when the length is 0.  Directions are in fifths, so the length n of
\* the cross product is the n in 0..5 with n*n = f.x^2 + f.z^2.
RightOf(f) ==
    LET cx == f[3]
        cz == -f[1]
        n  == CHOOSE k \in 0..5 : k * k = cx * cx + cz * cz
    IN  IF n = 0 THEN << 0, 0, 0 >>
        ELSE << -((5 * cx) \div n), 0, -((5 * cz) \div n) >>

\* a damping factor of 1: the velocity is kept
Undamped(v) == v

\* v * scrollDamping, rounded toward zero to the velocity unit
Damped(v) ==
    IF v >= 0 THEN (v * scrollDampingNum) \div scrollDampingDen
    ELSE -(((-v) * scrollDampingNum) \div scrollDampingDen)

(***************************************************************************)
(* Camera movement of one frame (main.js 671-721, part_000 391-435).       *)
(* Result: [pos, vel].                                                     *)
(***************************************************************************)
WasdPotential(pos, fwd, keys, delta) ==
    LET right == RightOf(fwd)
        d     == moveSpeed * delta
        p1 == IF "W" \in keys THEN VAdd(pos, VScale(fwd, d)) ELSE pos
        p2 == IF "S" \in keys THEN VAdd(p1, VScale(fwd, -d)) ELSE p1
        p3 == IF "A" \in keys THEN VAdd(p2, VScale(right, -d)) ELSE p2
        p4 == IF "D" \in keys THEN VAdd(p3, VScale(right, d)) ELSE p3
    IN  p4

WasdMove(pos, fwd, keys, delta) ==
    LET pot == WasdPotential(pos, fwd, keys, delta)
    IN  IF keys = {} THEN pos
        ELSE IF variant = "main"
        THEN << clampX(pot[1]), pot[2], clampZ(pot[3]) >>
        ELSE IF /\ pot[1] >= minCameraX /\ pot[1] <= maxCameraX
                /\ pot[3] >= minCameraZ /\ pot[3] <= maxCameraZ
             THEN pot
             ELSE << clampX(pos[1]), pos[2], clampZ(pos[3]) >>

ScrollInBounds(pot) ==
    IF variant = "main"
    THEN /\ pot[1] > minCameraX /\ pot[1] < maxCameraX
         /\ pot[3] > minCameraZ /\ pot[3] < maxCameraZ
    ELSE /\ pot[1] >= minCameraX /\ pot[1] <= maxCameraX
         /\ pot[3] >= minCameraZ /\ pot[3] <= maxCameraZ

\* scroll movement that damps the velocity before it moves the camera
ScrollMoveDampFirst(pos, fwd, vel, touching, delta) ==
    LET right == RightOf(fwd)
        slow == IF variant = "main" /\ touching THEN vel ELSE Damped(vel)
        pot == VAdd(pos, VScale(right, slow * delta))
    IN  IF Abs(vel) > scrollEpsilon
        THEN IF ScrollInBounds(pot)
             THEN [ pos |-> pot, vel |-> slow ]
             ELSE [ pos |-> << clampX(pot[1]), pos[2], clampZ(pot[3]) >>, vel |-> 0 ]
        ELSE [ pos |-> pos, vel |-> 0 ]

\* scroll movement that damps the velocity during a touch drag as well
ScrollMoveAlwaysDamped(pos, fwd, vel, touching, delta) ==
    LET right == RightOf(fwd)
        pot == VAdd(pos, VScale(right, vel * delta))
    IN  IF Abs(vel) > scrollEpsilon
        THEN IF ScrollInBounds(pot)
             THEN [ pos |-> pot, vel |-> Damped(vel) ]
             ELSE [ pos |-> << clampX(pot[1]), pos[2], clampZ(pot[3]) >>, vel |-> 0 ]
        ELSE [ pos |-> pos, vel |-> 0 ]

\* scroll movement that lets a velocity at or below the threshold move the
\* camera and decay further
ScrollMoveNoSnap(pos, fwd, vel, touching, delta) ==
    LET right == RightOf(fwd)
        pot == VAdd(pos, VScale(right, vel * delta))
    IN  IF ScrollInBounds(pot)
        THEN [ pos |-> pot,
               vel |-> IF variant = "main" /\ touching THEN vel ELSE Damped(vel) ]
        ELSE [ pos |-> << clampX(pot[1]), pos[2], clampZ(pot[3]) >>, vel |-> 0 ]

ScrollMove(pos, fwd, vel, touching, delta) ==
    LET right == RightOf(fwd)
        moveVector == VScale(right, vel * delta)
        pot == VAdd(pos, moveVector)
    IN  IF Abs(vel) > scrollEpsilon
        THEN IF ScrollInBounds(pot)
             THEN [ pos |-> pot,
                    vel |-> IF variant = "main" /\ touching THEN vel ELSE Damped(vel) ]
             ELSE IF variant = "main"
                  THEN [ pos |-> << clampX(pot[1]), pos[2], clampZ(pot[3]) >>, vel |-> 0 ]
                  ELSE [ pos |-> << clampX(pos[1]), pos[2], clampZ(pos[3]) >>, vel |-> 0 ]
        ELSE [ pos |-> pos, vel |-> 0 ]

NavigationStep(pos, fwd, keys, vel, touching, delta) ==
    ScrollMove(WasdMove(pos, fwd, keys, delta), fwd, vel, touching, delta)

(***************************************************************************)
(* Hover arbitration of one frame (main.js 603-667, part_000 344-388).     *)
(***************************************************************************)
\* raycaster.setFromCamera(mouse, importedCamera); intersectObjects(videoMeshes):
\* the scene is external, so a fixed scene stands for it.  The three planes
\* stand side by side in front of a camera that looks toward -z, 10 world
\* units apart and 0.5 wide; the view is 20 wide at their depth, so the ray
\* through pointer NDC (nx, ny) meets their plane at x = pos.x + nx * 10.
\* NDC coordinates are in hundredths.
meshCentreX(m) ==
    CASE m = "lanternBugfly_webm" -> -50000000
      [] m = "lunaMoth_webm"      -> 0
      [] m = "tigerButterfly_webm" -> 50000000

RayHits(m, ndc, pos, fwd) ==
    /\ fwd[3] < 0
    /\ Abs(ndc[2]) <= 100
    /\ Abs(pos[1] + ndc[1] * 500000 - meshCentreX(m)) <= 1250000

\* intersects[0].object.name, or "none"; the name must have a video element
Intersected(ndc, pos, fwd) ==
    LET hits == { m \in videoMeshes : RayHits(m, ndc, pos, fwd) /\ m \in videoElements }
    IN  IF hits = {} THEN "none" ELSE CHOOSE m \in hits : TRUE

\* HTMLMediaElement.pause() and play(); `ok` is whether the play request is
\* accepted (a rejected promise leaves the element paused)
Paused(vid, m) == [vid EXCEPT ![m].paused = TRUE]
Played(vid, m, ok) == IF ok THEN [vid EXCEPT ![m].paused = FALSE] ELSE vid

\* hover arbitration that does not pause the surface hover moves away from
HoverStepNoPause(vid, hovered, hit, resumed, ok) ==
    IF hit # "none"
    THEN IF hovered # hit
         THEN LET gate == resumed \/ vid[hit].muted
              IN  [ video |-> IF gate THEN Played(vid, hit, ok) ELSE vid,
                    hovered |-> hit,
                    reqs |-> IF gate THEN << <<"play", hit>> >> ELSE << >> ]
         ELSE [ video |-> vid, hovered |-> hovered, reqs |-> << >> ]
    ELSE IF hovered # "none"
         THEN [ video |-> Paused(vid, hovered), hovered |-> "none",
                reqs |-> << <<"pause", hovered>> >> ]
         ELSE [ video |-> vid, hovered |-> "none", reqs |-> << >> ]

\* hover arbitration that pauses on a miss without forgetting what was hovered
HoverStepRepause(vid, hovered, hit, resumed, ok) ==
    IF hit # "none"
    THEN IF hovered # hit
         THEN LET v1 == IF hovered # "none" THEN Paused(vid, hovered) ELSE vid
                  r1 == IF hovered # "none" THEN << <<"pause", hovered>> >> ELSE << >>
                  gate == resumed \/ vid[hit].muted
              IN  [ video |-> IF gate THEN Played(v1, hit, ok) ELSE v1,
                    hovered |-> hit,
                    reqs |-> IF gate THEN Append(r1, <<"play", hit>>) ELSE r1 ]
         ELSE [ video |-> vid, hovered |-> hovered, reqs |-> << >> ]
    ELSE IF hovered # "none"
         THEN [ video |-> Paused(vid, hovered), hovered |-> hovered,
                reqs |-> << <<"pause", hovered>> >> ]
         ELSE [ video |-> vid, hovered |-> "none", reqs |-> << >> ]

\* hover arbitration that forgets the surface whose play request is refused
HoverStepDropRefused(vid, hovered, hit, resumed, ok) ==
    IF hit # "none"
    THEN IF hovered # hit
         THEN LET v1 == IF hovered # "none" THEN Paused(vid, hovered) ELSE vid
                  r1 == IF hovered # "none" THEN << <<"pause", hovered>> >> ELSE << >>
                  gate == resumed \/ vid[hit].muted
              IN  [ video |-> IF gate THEN Played(v1, hit, ok) ELSE v1,
                    hovered |-> IF gate /\ ~ok THEN "none" ELSE hit,
                    reqs |-> IF gate THEN Append(r1, <<"play", hit>>) ELSE r1 ]
         ELSE [ video |-> vid, hovered |-> hovered, reqs |-> << >> ]
    ELSE IF hovered # "none"
         THEN [ video |-> Paused(vid, hovered), hovered |-> "none",
                reqs |-> << <<"pause", hovered>> >> ]
         ELSE [ video |-> vid, hovered |-> "none", reqs |-> << >> ]

\* hover arbitration that requests play again on every frame in which the
\* hovered surface is found paused
HoverStepRetry(vid, hovered, hit, resumed, ok) ==
    IF hit # "none"
    THEN LET v1 == IF hovered \notin {"none", hit} THEN Paused(vid, hovered) ELSE vid
             r1 == IF hovered \notin {"none", hit} THEN << <<"pause", hovered>> >>
                   ELSE << >>
             gate == (resumed \/ vid[hit].muted) /\ (hovered # hit \/ vid[hit].paused)
         IN  [ video |-> IF gate THEN Played(v1, hit, ok) ELSE v1,
               hovered |-> hit,
               reqs |-> IF gate THEN Append(r1, <<"play", hit>>) ELSE r1 ]
    ELSE IF hovered # "none"
         THEN [ video |-> Paused(vid, hovered), hovered |-> "none",
                reqs |-> << <<"pause", hovered>> >> ]
         ELSE [ video |-> vid, hovered |-> "none", reqs |-> << >> ]

\* hover arbitration that starts the new surface before it pauses the old one
HoverStepPlayFirst(vid, hovered, hit, resumed, ok) ==
    IF hit # "none"
    THEN IF hovered # hit
         THEN LET gate == resumed \/ vid[hit].muted
                  v1 == IF gate THEN Played(vid, hit, ok) ELSE vid
                  r1 == IF gate THEN << <<"play", hit>> >> ELSE << >>
              IN  [ video |-> IF hovered # "none" THEN Paused(v1, hovered) ELSE v1,
                    hovered |-> hit,
                    reqs |-> IF hovered # "none" THEN Append(r1, <<"pause", hovered>>)
                             ELSE r1 ]
         ELSE [ video |-> vid, hovered |-> hovered, reqs |-> << >> ]
    ELSE IF hovered # "none"
         THEN [ video |-> Paused(vid, hovered), hovered |-> "none",
                reqs |-> << <<"pause", hovered>> >> ]
         ELSE [ video |-> vid, hovered |-> "none", reqs |-> << >> ]

\* Result: [video, hovered, reqs]
HoverStep(vid, hovered, hit, resumed, ok) ==
    IF hit # "none"
    THEN IF hovered # hit
         THEN LET v1 == IF hovered # "none" THEN Paused(vid, hovered) ELSE vid
                  r1 == IF hovered # "none" THEN << <<"pause", hovered>> >> ELSE << >>
                  gate == resumed \/ vid[hit].muted
              IN  [ video |-> IF gate THEN Played(v1, hit, ok) ELSE v1,
                    hovered |-> hit,
                    reqs |-> IF gate THEN Append(r1, <<"play", hit>>) ELSE r1 ]
         ELSE [ video |-> vid, hovered |-> hovered, reqs |-> << >> ]
    ELSE IF hovered # "none"
         THEN [ video |-> Paused(vid, hovered), hovered |-> "none",
                reqs |-> << <<"pause", hovered>> >> ]
         ELSE [ video |-> vid, hovered |-> "none", reqs |-> << >> ]

\* offsetWidth / offsetHeight of the panel: 0 while it is not displayed
\* (index.html 68-81: max-width 200px, padding 10px 15px)
PanelBox(panel) == IF panel.display = "block" THEN << 230, 60 >> ELSE << 0, 0 >>

infoPanelOffset == << 15, -15 >>

\* the caption of each surface (main.js 222-226, part_000 98-102)
infoPanelData ==
    [ m \in videoPlanes |->
        CASE m = "lanternBugfly_webm" ->
                 "This is the Lantern Bugfly. It glows gently in the dark."
          [] m = "lunaMoth_webm" ->
                 "The Luna Moth, known for its ethereal beauty and large wings."
          [] m = "tigerButterfly_webm" ->
                 "A Tiger Butterfly, showcasing vibrant patterns." ]

\* infoPanelData[name] || 'Info not available.' (main.js 652, part_000 378)
PanelText(m) ==
    IF m \in DOMAIN infoPanelData THEN infoPanelData[m]
    ELSE IF variant = "main" THEN "Info not available." ELSE "No info available."

\* panel placement that moves the panel to the pointer in every frame, hit or not
InfoPanelStepFollow(panel, hit, px, view) ==
    [ display |-> IF hit # "none" THEN "block" ELSE "none",
      text |-> IF hit # "none" THEN PanelText(hit) ELSE panel.text,
      left |-> Max(0, px[1] + infoPanelOffset[1]),
      top |-> Max(0, px[2] + infoPanelOffset[2]) ]

\* panel placement that leaves the panel as it is when nothing is hit
InfoPanelStepKeep(panel, hit, px, view) ==
    IF hit # "none"
    THEN [ display |-> "block", text |-> PanelText(hit),
           left |-> Max(0, px[1] + infoPanelOffset[1]),
           top |-> Max(0, px[2] + infoPanelOffset[2]) ]
    ELSE panel

InfoPanelStep(panel, hit, px, view) ==
    IF hit # "none"
    THEN LET box == PanelBox(panel)
             x0 == px[1] + infoPanelOffset[1]
             y0 == px[2] + infoPanelOffset[2]
             x1 == IF x0 + box[1] > view[1] THEN px[1] - box[1] - infoPanelOffset[1] ELSE x0
             y1 == IF y0 + box[2] > view[2] THEN px[2] - box[2] - infoPanelOffset[2] ELSE y0
         IN  [ display |-> "block", text |-> PanelText(hit),
               left |-> Max(0, x1), top |-> Max(0, y1) ]
    ELSE [ panel EXCEPT !.display = "none" ]

(***************************************************************************)
(* animate (main.js 586-728, part_000 327-442).                            *)
(***************************************************************************)
DeltaShort == 10        \* a frame of 0.1 s
DeltaSet == {0, DeltaShort}

AnimateGuard == sceneReady /\ (variant = "legacy" \/ isCameraLoaded)

\* `counted`: 1 for a frame run by requestAnimationFrame, 0 for the first one
AnimateBody(delta, ok, counted) ==
    LET hit == Intersected(mouse.ndc, camera.pos, camera.fwd)
        hov == HoverStep(video, currentlyHoveredVideo, hit, audioContextResumed, ok)
        nav == NavigationStep(camera.pos, camera.fwd, keyStates, scrollVelocityX,
                              isTouching, delta)
    IN  /\ video' = hov.video
        /\ currentlyHoveredVideo' = hov.hovered
        /\ infoPanel' = InfoPanelStep(infoPanel, hit, mouse.px, viewport)
        /\ camera' = [camera EXCEPT !.pos = nav.pos]
        /\ scrollVelocityX' = nav.vel
        /\ hist' = [hist EXCEPT !.ticks = @ + counted, !.frames = @ + 1,
                                !.lastHit = hit,
                                !.frameReqs = hov.reqs,
                                !.refused = IF ~ok /\ hov.reqs # << >>
                                               /\ hov.reqs[Len(hov.reqs)][1] = "play"
                                            THEN hit ELSE @,
                                !.afterLoss = hit = "none" /\ hist.lastHit = "none"
                                              /\ hist.frameReqs # << >>,
                                !.snapped = @ \/ (scrollVelocityX # 0
                                                  /\ Abs(scrollVelocityX) <= scrollEpsilon)]

FrameUnchanged ==
    UNCHANGED << variant, scenario, itemsTotal, itemsLoaded, isLoading, stageVars, revealTimers,
                 progressText, progressDisplay, buttonDisplay, buttonHidden, buttonText,
                 overlayHidden, isCameraLoaded, sceneReady, listener, ctxState,
                 audioContextResumed, backgroundSound, soundPlaying, pendingResume,
                 tornDown, keyStates, isTouching, touchStartY, touches, mouse,
                 viewport, isSafari, videoMeshes, videoElements, canvasTextureObjects >>

\* the animate() call inside startExperience: the first frame, run synchronously
\* right after clock.start(), so its getDelta() is 0
FirstFrame(ok) ==
    /\ callPending
    /\ ok \/ scenario = "hover"
    /\ callPending' = FALSE
    /\ IF AnimateGuard
       THEN /\ rafPending' = rafPending + 1
            /\ AnimateBody(0, ok, 0)
       ELSE UNCHANGED << rafPending, video, currentlyHoveredVideo, infoPanel, camera,
                         scrollVelocityX, hist >>
    /\ FrameUnchanged

\* an animate callback run by requestAnimationFrame
Tick(delta, ok) ==
    /\ ~callPending
    /\ ok \/ scenario = "hover"
    /\ rafPending > 0
    /\ UNCHANGED callPending
    /\ IF AnimateGuard
       THEN /\ hist.ticks < MaxTicks
            /\ UNCHANGED rafPending          \* one callback consumed, one requested
            /\ AnimateBody(delta, ok, 1)
       ELSE /\ rafPending' = rafPending - 1
            /\ UNCHANGED << video, currentlyHoveredVideo, infoPanel, camera,
                            scrollVelocityX, hist >>
    /\ FrameUnchanged

(***************************************************************************)
(* Model load (main.js 395-573, part_000 223-313) and the audio load it    *)
(* starts.  GLTFLoader, FileLoader and AudioLoader (three 0.164.1) report  *)
(* to the manager: the model counts as two items (the loader's and the     *)
(* file's), the sound file as one.              *)
(***************************************************************************)
\* cameras a model file may hold: none, or one with a position and a direction
ImportedCameras ==
    { \* at the origin, looking toward -z at the planes
      [ has |-> TRUE, pos |-> << 0, 5000000, 0 >>,                fwd |-> << 0, 0, -5 >> ],
      \* near a corner at x = 49.9, z = 1.4, looking toward +x
      [ has |-> TRUE, pos |-> << 249500000, 5000000, 7000000 >>,  fwd |-> << 5, 0, 0 >> ],
      \* outside the bounds at (60, 1, 3), looking downward and toward -z
      [ has |-> TRUE, pos |-> << 300000000, 5000000, 15000000 >>, fwd |-> << 0, -3, -4 >> ] }

NoImportedCamera == [ has |-> FALSE, pos |-> << 0, 0, 0 >>, fwd |-> << 0, 0, -5 >> ]
GltfCameras == ImportedCameras \cup {NoImportedCamera}
CentreCamera == CHOOSE c \in ImportedCameras : c.pos[1] = 0

\* the model files and audio context states a scenario offers
LoadOptions ==
    CASE scenario = "readiness" ->
             {CentreCamera, NoImportedCamera} \X {"suspended", "running", "closed"}
      [] scenario \in {"navigation", "touch"} -> GltfCameras \X {"running"}
      [] scenario = "hover" ->
             { << CentreCamera, "closed" >>, << NoImportedCamera, "running" >> }
      [] scenario = "leaving" -> { << CentreCamera, "running" >> }

NoCamera == [ src |-> "none", pos |-> << 0, 0, 0 >>, fwd |-> << 0, 0, -5 >>,
              aspect |-> << 0, 0 >> ]

NoVideo == [ exists |-> FALSE, paused |-> TRUE, src |-> FALSE, muted |-> TRUE,
             sampling |-> FALSE, metadata |-> "none" ]

\* main.js 404-431, part_000 232-247.  Result: the camera, or NoCamera
SelectCamera(cam) ==
    IF cam.has
    THEN [ src |-> "imported",
           pos |-> << clampX(cam.pos[1]), cam.pos[2], clampZ(cam.pos[3]) >>,
           fwd |-> cam.fwd, aspect |-> viewport ]
    ELSE IF variant = "main"
         THEN [ src |-> "fallback", pos |-> << 0, 0, fallbackCameraZ >>,
                fwd |-> << 0, 0, -5 >>, aspect |-> viewport ]
         ELSE NoCamera

\* main.js 436-542, part_000 251-279: the video element of a mesh
CreateVideo(m) ==
    IF variant = "main" /\ isSafari
    THEN [ exists |-> TRUE, paused |-> TRUE, src |-> TRUE, muted |-> TRUE,
           sampling |-> FALSE, metadata |-> "pending" ]
    ELSE [ exists |-> TRUE, paused |-> TRUE, src |-> TRUE, muted |-> TRUE,
           sampling |-> FALSE, metadata |-> "none" ]

\* the meshes of the model file that carry a name of videoPlanes (a file may
\* lack some: main.js 544-546 only warns)
GltfMeshes == IF variant = "main" /\ isSafari
              THEN {"lunaMoth_webm", "tigerButterfly_webm"}
              ELSE videoPlanes

ModelLoaded(cam, ctx) ==
    /\ ~callPending
    /\ << cam, ctx >> \in LoadOptions
    /\ modelStage = "parsing"
    /\ LET c == SelectCamera(cam)
           found == c.src # "none"
           direct == ~(variant = "main" /\ isSafari)
       IN  /\ camera' = c
           /\ isCameraLoaded' = found
           /\ listener' = found
           /\ ctxState' = IF found THEN ctx ELSE ctxState
           /\ video' = [ m \in videoPlanes |->
                           IF m \in GltfMeshes THEN CreateVideo(m) ELSE NoVideo ]
           /\ videoElements' = IF direct THEN GltfMeshes ELSE {}
           /\ videoMeshes' = IF direct THEN GltfMeshes ELSE {}
           /\ backgroundSound' = found
           /\ audioStage' = IF found THEN "fetching" ELSE "none"
           /\ SetPage(itemEnd(IF found THEN itemStart(Page) ELSE Page))
    /\ modelStage' = "loaded"
    /\ UNCHANGED << variant, scenario, pendingResume, rafPending, tornDown, inputVars,
                    isSafari, canvasTextureObjects, currentlyHoveredVideo, infoPanel >>

\* the callback of loader.load for a failure (main.js 566-572, part_000 307-312)
modelOnError(p) ==
    IF variant = "main"
    THEN [p EXCEPT !.progressText = <<"errorModel", 0>>,
                   !.progressDisplay = "block",
                   !.buttonDisplay = "none",
                   !.overlayHidden = FALSE,
                   !.hist.failed = TRUE]
    ELSE [p EXCEPT !.progressText = <<"errorModel", 0>>,
                   !.buttonDisplay = "none",
                   !.hist.failed = TRUE]

LoadUnchanged ==
    UNCHANGED << variant, scenario, camVars, ctxState, pendingResume, rafPending, tornDown,
                 inputVars, isSafari, hoverVars >>

\* the model file has been fetched: its FileLoader item ends, parsing begins
ModelFetched ==
    /\ ~callPending
    /\ modelStage = "fetching"
    /\ modelStage' = "parsing"
    /\ SetPage(itemEnd(Page))
    /\ UNCHANGED audioStage
    /\ LoadUnchanged

\* the fetch fails (both items end, each reporting the error) or the parse
\* fails (the loader's item ends)
ModelError ==
    /\ ~callPending
    /\ scenario = "readiness"
    /\ modelStage \in {"fetching", "parsing"}
    /\ modelStage' = "failed"
    /\ LET p1 == itemEnd(itemError(modelOnError(Page)))
       IN  SetPage(IF modelStage = "fetching" THEN itemEnd(itemError(p1)) ELSE p1)
    /\ UNCHANGED audioStage
    /\ LoadUnchanged

AudioFetched ==
    /\ ~callPending
    /\ audioStage = "fetching"
    /\ audioStage' = "decoding"
    /\ SetPage(itemEnd(Page))
    /\ UNCHANGED modelStage
    /\ LoadUnchanged

\* main.js 552-557: the buffer is handed to backgroundSound
\* a decode callback that starts the sound as soon as its buffer is set
AudioDecodedAutoplay ==
    /\ ~callPending
    /\ audioStage = "decoding"
    /\ audioStage' = "ready"
    /\ SetPage([Page EXCEPT !.soundPlaying = TRUE])
    /\ UNCHANGED modelStage
    /\ LoadUnchanged

AudioDecoded ==
    /\ ~callPending
    /\ audioStage = "decoding"
    /\ audioStage' = "ready"
    /\ SetPage(Page)
    /\ UNCHANGED modelStage
    /\ LoadUnchanged

AudioError ==
    /\ ~callPending
    /\ scenario = "readiness"
    /\ audioStage \in {"fetching", "decoding"}
    /\ audioStage' = "failed"
    /\ SetPage(IF audioStage = "fetching" THEN itemEnd(itemError(Page))
               ELSE itemError(Page))
    /\ UNCHANGED modelStage
    /\ LoadUnchanged

\* the timeout set by loadingManager.onLoad fires
RevealTimeout ==
    /\ ~callPending
    /\ DecodedFirst
    /\ revealTimers > 0
    /\ SetPage(onLoadTimeout(Page))
    /\ UNCHANGED stageVars
    /\ LoadUnchanged

(***************************************************************************)
(* The click listener of the unlock button (main.js 334-362, part_000      *)
(* 158-186) and the continuations of listener.context.resume().            *)
(***************************************************************************)
UnlockUnchanged ==
    UNCHANGED << variant, scenario, stageVars, camVars, rafPending, tornDown, inputVars,
                 isSafari, hoverVars >>

\* an unlock handler that hides the button before it tests the listener
ClickHidesFirst(throws) ==
    /\ ~callPending
    /\ buttonDisplay = "block"
    /\ hist.clicks < ClickBudget
    /\ throws => scenario = "readiness"
    /\ LET p0 == [Page EXCEPT !.hist.clicks = @ + 1]
           hid(p) == [p EXCEPT !.buttonHidden = TRUE]
       IN  IF ~listener
           THEN /\ SetPage(hid([p0 EXCEPT !.buttonText = "Error: Audio not ready"]))
                /\ UNCHANGED << ctxState, pendingResume >>
           ELSE IF ctxState = "suspended"
           THEN /\ SetPage(hid(p0))
                /\ pendingResume' = pendingResume + 1
                /\ UNCHANGED ctxState
           ELSE IF ctxState = "running"
           THEN /\ SetPage(hid(startExperience(playBackgroundSound(
                        [p0 EXCEPT !.audioContextResumed = TRUE], throws))))
                /\ UNCHANGED << ctxState, pendingResume >>
           ELSE /\ SetPage(hid(startExperience(p0)))
                /\ UNCHANGED << ctxState, pendingResume >>
    /\ UnlockUnchanged

Click(throws) ==
    /\ ~callPending
    /\ buttonDisplay = "block"
    /\ hist.clicks < ClickBudget
    /\ throws => scenario = "readiness"
    /\ LET p0 == [Page EXCEPT !.hist.clicks = @ + 1]
           hid(p) == [p EXCEPT !.buttonHidden = TRUE]
       IN  IF ~listener
           THEN /\ SetPage([p0 EXCEPT !.buttonText = "Error: Audio not ready"])
                /\ UNCHANGED << ctxState, pendingResume >>
           ELSE IF ctxState = "suspended"
           THEN /\ SetPage(hid(p0))
                /\ pendingResume' = pendingResume + 1
                /\ UNCHANGED ctxState
           ELSE IF ctxState = "running"
           THEN /\ SetPage(hid(startExperience(playBackgroundSound(
                        [p0 EXCEPT !.audioContextResumed = TRUE], throws))))
                /\ UNCHANGED << ctxState, pendingResume >>
           ELSE /\ SetPage(hid(startExperience(p0)))
                /\ UNCHANGED << ctxState, pendingResume >>
    /\ UnlockUnchanged

ResumeFulfilled(throws) ==
    /\ ~callPending
    /\ throws => scenario = "readiness"
    /\ pendingResume > 0
    /\ pendingResume' = pendingResume - 1
    /\ ctxState' = "running"
    /\ SetPage(startExperience(playBackgroundSound(
                   [Page EXCEPT !.audioContextResumed = TRUE, !.hist.fulfilled = @ + 1],
                   throws)))
    /\ UnlockUnchanged

\* a catch-continuation that only relabels the button
ResumeRejectedRelabels ==
    /\ ~callPending
    /\ Faults
    /\ pendingResume > 0
    /\ ctxState = "suspended"
    /\ pendingResume' = pendingResume - 1
    /\ UNCHANGED ctxState
    /\ SetPage([Page EXCEPT !.buttonText = "Audio Error", !.hist.resumeRejected = TRUE])
    /\ UnlockUnchanged

ResumeRejected ==
    /\ ~callPending
    /\ Faults
    /\ pendingResume > 0
    /\ ctxState = "suspended"
    /\ pendingResume' = pendingResume - 1
    /\ UNCHANGED ctxState
    /\ LET p0 == [Page EXCEPT !.buttonText = "Audio Error", !.hist.resumeRejected = TRUE]
       IN  SetPage(IF variant = "main" THEN startExperience(p0) ELSE p0)
    /\ UnlockUnchanged

(***************************************************************************)
(* Sampled (canvas) textures, main.js 31-132 and 471-486.                  *)
(***************************************************************************)
\* the loadedmetadata listener: video.play(), updateCanvasTexture(), then the
\* onTextureReady callback, which registers the mesh and ends with videoEl.pause()
LoadedMetadata(m) ==
    /\ ~callPending
    /\ video[m].metadata = "pending"
    /\ video[m].src
    /\ video' = [video EXCEPT ![m].metadata = "loaded", ![m].sampling = TRUE,
                              ![m].paused = TRUE]
    /\ videoElements' = videoElements \cup {m}
    /\ videoMeshes' = videoMeshes \cup {m}
    /\ canvasTextureObjects' = canvasTextureObjects \cup {m}
    /\ UNCHANGED << variant, scenario, itemsTotal, itemsLoaded, isLoading, stageVars, revealTimers,
                    progressText, progressDisplay, buttonDisplay, buttonHidden,
                    buttonText, overlayHidden, isCameraLoaded, sceneReady, listener,
                    ctxState, audioContextResumed, backgroundSound, soundPlaying,
                    pendingResume, rafPending, callPending, tornDown, camera,
                    inputVars, isSafari, currentlyHoveredVideo, infoPanel, hist >>

\* what a video-only step leaves alone
VideoUnchanged ==
    UNCHANGED << variant, scenario, itemsTotal, itemsLoaded, isLoading, stageVars, revealTimers,
                 progressText, progressDisplay, buttonDisplay, buttonHidden,
                 buttonText, overlayHidden, isCameraLoaded, sceneReady, listener,
                 ctxState, audioContextResumed, backgroundSound, soundPlaying,
                 pendingResume, rafPending, callPending, tornDown, camera,
                 inputVars, isSafari, currentlyHoveredVideo, infoPanel,
                 videoMeshes, videoElements, canvasTextureObjects >>

\* a sampling callback that asks for the next one only while the video plays
updateCanvasTextureWhilePlaying(v) == [v EXCEPT !.sampling = ~v.paused]

\* updateCanvasTexture (main.js 57-79): draws the current frame when there is
\* one, then requests the next callback whatever the video is doing
updateCanvasTexture(v) == [v EXCEPT !.sampling = TRUE]

\* one run of the sampling callback of surface m
SampleTick(m) ==
    /\ ~callPending
    /\ scenario = "leaving"
    /\ video[m].sampling
    /\ video' = [video EXCEPT ![m] = updateCanvasTexture(video[m])]
    /\ hist' = [hist EXCEPT !.sampled =
                    @ \cup {IF video[m].paused THEN "paused" ELSE "playing"}]
    /\ VideoUnchanged

\* the 'error' event of a video made by createCanvasVideoTexture (main.js
\* 106-112): the pending sampling callback, if there is one, is cancelled
VideoError(m) ==
    /\ ~callPending
    /\ scenario = "leaving"
    /\ variant = "main" /\ isSafari
    /\ video[m].exists /\ video[m].src
    /\ video[m].metadata \in {"pending", "loaded"}
    /\ video' = [video EXCEPT ![m].metadata = "error", ![m].sampling = FALSE]
    /\ UNCHANGED hist
    /\ VideoUnchanged

(***************************************************************************)
(* beforeunload (main.js 735-773); part_000 has no such listener.          *)
(***************************************************************************)
\* canvasTextureObjects[m].dispose() (main.js 120-130), then the pass over
\* videoElements (main.js 766-770)
DisposedVideo(v, m) ==
    LET v1 == IF m \in canvasTextureObjects
              THEN [v EXCEPT !.sampling = FALSE, !.paused = TRUE, !.src = FALSE]
              ELSE v
    IN  IF m \in videoElements
        THEN [v1 EXCEPT !.paused = TRUE, !.src = FALSE]
        ELSE v1

Teardown ==
    /\ ~callPending
    /\ variant = "main"
    /\ scenario \in {"hover", "leaving"}
    /\ hist.loopStarts > 0
    /\ ~tornDown                    \* the page is left once
    /\ sceneReady' = FALSE
    /\ tornDown' = TRUE
    /\ video' = [ m \in videoPlanes |-> DisposedVideo(video[m], m) ]
    /\ soundPlaying' = IF backgroundSound /\ soundPlaying THEN FALSE ELSE soundPlaying
    /\ UNCHANGED hist
    /\ UNCHANGED << variant, scenario, itemsTotal, itemsLoaded, isLoading, stageVars, revealTimers,
                    progressText, progressDisplay, buttonDisplay, buttonHidden,
                    buttonText, overlayHidden, camVars, ctxState, audioContextResumed,
                    pendingResume, rafPending, callPending, inputVars, isSafari,
                    videoMeshes, videoElements, canvasTextureObjects,
                    currentlyHoveredVideo, infoPanel >>

(***************************************************************************)
(* Input listeners (main.js 261-330, 576-583; part_000 131-155, 316-323).  *)
(***************************************************************************)
Keys == {"W", "A", "S", "D"}

WheelNotch == 10000      \* a wheel event of deltaY = 100 px
WheelFine  == 3          \* a wheel event of deltaY = 0.03 px
WheelSet == {WheelNotch, -WheelNotch, WheelFine}

TouchFar  == 4           \* clientY of a touch point, 0.04 px
TouchSet == {0, TouchFar}
MaxFingers == 2

ViewSet == { << 800, 600 >>, << 200, 100 >> }

\* pointer positions: a quarter in from the left, centre, right edge, bottom
\* right corner
PointerSet(view) ==
    IF scenario \in {"readiness", "leaving"} THEN { << view[1] \div 2, view[2] \div 2 >> }
    ELSE { << view[1] \div 4, view[2] \div 2 >>, << view[1] \div 2, view[2] \div 2 >>,
           << view[1] - 1, view[2] \div 2 >>, << view[1] - 1, view[2] - 1 >> }

InputUnchanged ==
    UNCHANGED << variant, scenario, itemsTotal, itemsLoaded, isLoading, stageVars, revealTimers,
                 progressText, progressDisplay, buttonDisplay, buttonHidden, buttonText,
                 overlayHidden, isCameraLoaded, sceneReady, listener, ctxState,
                 audioContextResumed, backgroundSound, soundPlaying, pendingResume,
                 rafPending, callPending, tornDown, isSafari, hoverVars >>

Input == /\ ~callPending
         /\ hist.inputs < InputBudget
         /\ scenario = "readiness" \/ overlayHidden

Counted == hist' = [hist EXCEPT !.inputs = @ + 1]

KeyDown(k) ==
    /\ Input
    /\ k \in ScenarioKeys
    /\ k \notin keyStates
    /\ keyStates' = keyStates \cup {k}
    /\ Counted
    /\ UNCHANGED << camera, scrollVelocityX, isTouching, touchStartY, touches, mouse,
                    viewport >>
    /\ InputUnchanged

KeyUp(k) ==
    /\ Input
    /\ k \in keyStates
    /\ keyStates' = keyStates \ {k}
    /\ Counted
    /\ UNCHANGED << camera, scrollVelocityX, isTouching, touchStartY, touches, mouse,
                    viewport >>
    /\ InputUnchanged

\* scrollVelocityX += event.deltaY * scrollSensitivity (main.js 278, part_000 144)
WheelVelocity(v, deltaY) == v + deltaY * scrollSensitivity

\* a wheel listener without the test of isCameraLoaded and sceneReady
WheelUnguarded(deltaY) ==
    /\ Input
    /\ MotionInput
    /\ scenario \in {"readiness", "leaving"} => deltaY = WheelNotch
    /\ scrollVelocityX' = WheelVelocity(scrollVelocityX, deltaY)
    /\ Counted
    /\ UNCHANGED << camera, keyStates, isTouching, touchStartY, touches, mouse, viewport >>
    /\ InputUnchanged

Wheel(deltaY) ==
    /\ Input
    /\ MotionInput
    /\ scenario \in {"readiness", "leaving"} => deltaY = WheelNotch
    /\ scrollVelocityX' = IF ~isCameraLoaded \/ ~sceneReady THEN scrollVelocityX
                          ELSE WheelVelocity(scrollVelocityX, deltaY)
    /\ Counted
    /\ UNCHANGED << camera, keyStates, isTouching, touchStartY, touches, mouse, viewport >>
    /\ InputUnchanged

\* mouse.x = (clientX / innerWidth) * 2 - 1, mouse.y = -(clientY / innerHeight) * 2 + 1,
\* in hundredths
PointerNdc(px, view) ==
    << (200 * px[1]) \div view[1] - 100, 100 - (200 * px[2]) \div view[2] >>

onMouseMove(px) ==
    /\ Input
    /\ PointerInput
    /\ px # mouse.px
    /\ mouse' = [ ndc |-> PointerNdc(px, viewport), px |-> px ]
    /\ Counted
    /\ UNCHANGED << camera, keyStates, scrollVelocityX, isTouching, touchStartY, touches,
                    viewport >>
    /\ InputUnchanged

\* the canvas receives touch events only while the overlay does not cover it
\* (index.html 20-44: the overlay fills the window until it gets class hidden)
CanvasReachable == overlayHidden

onTouchStart(y) ==
    /\ Input
    /\ TouchInput
    /\ variant = "main"
    /\ CanvasReachable
    /\ Len(touches) < MaxFingers
    /\ touches' = Append(touches, y)
    /\ IF isCameraLoaded /\ sceneReady /\ Len(touches') = 1
       THEN /\ isTouching' = TRUE
            /\ touchStartY' = touches'[1]
       ELSE UNCHANGED << isTouching, touchStartY >>
    /\ Counted
    /\ UNCHANGED << camera, keyStates, scrollVelocityX, mouse, viewport >>
    /\ InputUnchanged

\* a drag step that pushes the velocity the way the wheel does
TouchVelocitySameSign(v, deltaY) == v + deltaY * touchScrollSensitivity

\* scrollVelocityX -= deltaY * touchScrollSensitivity (main.js 313)
TouchVelocity(v, deltaY) == v - deltaY * touchScrollSensitivity

\* finger i moves to y
onTouchMove(i, y) ==
    /\ Input
    /\ TouchInput
    /\ variant = "main"
    /\ CanvasReachable
    /\ i \in 1..Len(touches)
    /\ y # touches[i]
    /\ touches' = [touches EXCEPT ![i] = y]
    /\ IF ~isCameraLoaded \/ ~sceneReady \/ ~isTouching \/ Len(touches') # 1
       THEN /\ isTouching' = (Len(touches') = 1)
            /\ UNCHANGED << scrollVelocityX, touchStartY >>
       ELSE LET currentTouchY == touches'[1]
                deltaY == currentTouchY - touchStartY
            IN  /\ scrollVelocityX' = TouchVelocity(scrollVelocityX, deltaY)
                /\ touchStartY' = currentTouchY
                /\ UNCHANGED isTouching
    /\ Counted
    /\ UNCHANGED << camera, keyStates, mouse, viewport >>
    /\ InputUnchanged

\* touchend / touchcancel: finger i leaves (a finger that is down can always
\* leave, so this event does not draw on the budget of input events)
onTouchEnd(i) ==
    /\ ~callPending
    /\ TouchInput
    /\ variant = "main"
    /\ i \in 1..Len(touches)
    /\ touches' = SubSeq(touches, 1, i - 1) \o SubSeq(touches, i + 1, Len(touches))
    /\ isTouching' = IF isTouching /\ Len(touches') = 0 THEN FALSE ELSE isTouching
    /\ UNCHANGED hist
    /\ UNCHANGED << camera, keyStates, scrollVelocityX, touchStartY, mouse, viewport >>
    /\ InputUnchanged

\* a resize listener without the isCameraLoaded test
onWindowResizeUnguarded(view) ==
    /\ Input
    /\ scenario = "readiness"
    /\ view # viewport
    /\ viewport' = view
    /\ camera' = [camera EXCEPT !.aspect = view]
    /\ Counted
    /\ UNCHANGED << keyStates, scrollVelocityX, isTouching, touchStartY, touches, mouse >>
    /\ InputUnchanged

onWindowResize(view) ==
    /\ Input
    /\ scenario = "readiness"
    /\ view # viewport
    /\ viewport' = view
    /\ camera' = IF isCameraLoaded THEN [camera EXCEPT !.aspect = view] ELSE camera
    /\ Counted
    /\ UNCHANGED << keyStates, scrollVelocityX, isTouching, touchStartY, touches, mouse >>
    /\ InputUnchanged

(***************************************************************************)
(* The state after the script has run: loader.load has started the model   *)
(* load, which registered its two items with the manager (onStart ran).    *)
(***************************************************************************)
InitHist ==
    [ clicks |-> 0, ticks |-> 0, frames |-> 0, inputs |-> 0,
      completed |-> FALSE, failed |-> FALSE, revealed |-> FALSE,
      revealedAfterFailure |-> FALSE, reported |-> << 0, 2, 0 >>,
      hundred |-> FALSE,
      ambientStarts |-> 0, ambientThrew |-> FALSE, resumeRejected |-> FALSE,
      loopStarts |-> 0, readyCount |-> 0, cameraError |-> FALSE,
      lastHit |-> "none", frameReqs |-> << >>, afterLoss |-> FALSE,
      snapped |-> FALSE, fulfilled |-> 0,
      refused |-> "none",       \* the surface whose play request was last refused
      sampled |-> {} ]          \* what the videos were doing when sampled

Init ==
    /\ variant \in {"main", "legacy"}
    /\ scenario \in Scenarios
    /\ scenario \in {"touch", "leaving"} => variant = "main"
    /\ isSafari \in (IF variant = "main" /\ scenario \in {"hover", "leaving"}
                     THEN BOOLEAN ELSE {FALSE})
    /\ itemsTotal = 2
    /\ itemsLoaded = 0
    /\ isLoading = TRUE
    /\ modelStage = "fetching"
    /\ audioStage = "none"
    /\ revealTimers = 0
    /\ progressText = <<"percent", 0>>
    /\ progressDisplay = "css"
    /\ buttonDisplay = "none"
    /\ buttonHidden = FALSE
    /\ buttonText = "E N T E R"
    /\ overlayHidden = FALSE
    /\ isCameraLoaded = FALSE
    /\ sceneReady = FALSE
    /\ listener = FALSE
    /\ ctxState = "none"
    /\ audioContextResumed = FALSE
    /\ backgroundSound = FALSE
    /\ soundPlaying = FALSE
    /\ pendingResume = 0
    /\ rafPending = 0
    /\ callPending = FALSE
    /\ tornDown = FALSE
    /\ camera = NoCamera
    /\ keyStates = {}
    /\ scrollVelocityX = 0
    /\ isTouching = FALSE
    /\ touchStartY = 0
    /\ touches = << >>
    /\ viewport = << 800, 600 >>
    /\ mouse = [ ndc |-> << -200, -200 >>, px |-> << 0, 0 >> ]
    /\ video = [ m \in videoPlanes |-> NoVideo ]
    /\ videoMeshes = {}
    /\ videoElements = {}
    /\ canvasTextureObjects = {}
    /\ currentlyHoveredVideo = "none"
    /\ infoPanel = [ display |-> "none", text |-> "placeholder", left |-> 0, top |-> 0 ]
    /\ hist = InitHist

Next ==
    \/ ModelFetched
    \/ \E cam \in GltfCameras, ctx \in {"suspended", "running", "closed"} :
           ModelLoaded(cam, ctx)
    \/ ModelError
    \/ AudioFetched
    \/ AudioDecoded
    \/ AudioError
    \/ RevealTimeout
    \/ \E throws \in BOOLEAN : Click(throws)
    \/ \E throws \in BOOLEAN : ResumeFulfilled(throws)
    \/ ResumeRejected
    \/ \E ok \in BOOLEAN : FirstFrame(ok)
    \/ \E delta \in DeltaSet, ok \in BOOLEAN : Tick(delta, ok)
    \/ \E m \in videoPlanes : LoadedMetadata(m)
    \/ \E m \in videoPlanes : SampleTick(m)
    \/ \E m \in videoPlanes : VideoError(m)
    \/ Teardown
    \/ \E k \in Keys : KeyDown(k)
    \/ \E k \in Keys : KeyUp(k)
    \/ \E d \in WheelSet : Wheel(d)
    \/ \E px \in PointerSet(viewport) : onMouseMove(px)
    \/ \E y \in TouchSet : onTouchStart(y)
    \/ \E i \in 1..MaxFingers, y \in TouchSet : onTouchMove(i, y)
    \/ \E i \in 1..MaxFingers : onTouchEnd(i)
    \/ \E view \in ViewSet : onWindowResize(view)

Spec == Init /\ [][Next]_vars

(***************************************************************************)
(* Properties of the readiness, navigation and hover components.           *)
(***************************************************************************)
InBounds(pos) ==
    /\ minCameraX <= pos[1] /\ pos[1] <= maxCameraX
    /\ minCameraZ <= pos[3] /\ pos[3] <= maxCameraZ

\* a step that runs the body of animate once
FrameStep == hist'.frames = hist.frames + 1

Playing == { m \in videoPlanes : video[m].exists /\ ~video[m].paused }

ErrorShown ==
    /\ progressText[1] \in {"error", "errorModel", "cameraFailed"}
    /\ progressDisplay # "none"
    /\ buttonDisplay = "none"

\* C1: after every frame the camera's x and z lie within the bounding box,
\* whichever camera (imported or fallback) the model load selected.
C1_BoundsAfterEveryTick ==
    hist.frames > 0 => InBounds(camera.pos)

\* C2: however many unlock gestures are handled and whichever of their resume
\* continuations run, the page turns Ready once, one frame loop runs, and the
\* ambient sound is started at most once (as long as the page is not left).
C2_UnlockIdempotent ==
    ~tornDown =>
        /\ hist.readyCount <= 1
        /\ hist.loopStarts <= 1
        /\ hist.ambientStarts <= 1
        /\ rafPending + (IF callPending THEN 1 ELSE 0) <= 1
        /\ (hist.fulfilled > 0 /\ isCameraLoaded) =>
               (sceneReady /\ hist.readyCount = 1 /\ hist.loopStarts = 1)

\* two gestures were handled while the first resume was pending and both
\* continuations have run
C2_TwoContinuationsRan ==
    /\ hist.clicks = 2
    /\ hist.fulfilled = 2
    /\ pendingResume = 0
    /\ hist.readyCount = 1
    /\ hist.ambientStarts = 1
    /\ rafPending = 1

\* C3: once an unlock gesture has been handled with no camera resolved, the
\* page is in the Error state (static error message shown, affordance
\* withheld), it is not Ready and no frame has run; and frames run only with
\* a loaded camera.
C3_GestureWithoutCameraIsFatal ==
    /\ (hist.clicks > 0 /\ ~isCameraLoaded) =>
           (ErrorShown /\ ~sceneReady /\ hist.frames = 0)
    /\ (hist.frames > 0 \/ rafPending > 0) => isCameraLoaded

\* C4: after an asset load failure the error message stays, the affordance is
\* not visible and the frame loop is never started, whatever completion event
\* the manager reports later.
C4_FailureWithholdsAffordance ==
    hist.failed => (ErrorShown /\ ~hist.revealedAfterFailure /\ hist.loopStarts = 0)

\* C5: at most one video is playing, and a playing video is the hovered one.
C5_HoverExclusive ==
    /\ Cardinality(Playing) <= 1
    /\ \A m \in Playing : currentlyHoveredVideo = m

\* hover went from one surface to another and the second one plays
C5_SwitchedSurface ==
    /\ Len(hist.frameReqs) = 2
    /\ hist.frameReqs[1][1] = "pause"
    /\ hist.frameReqs[2][1] = "play"
    /\ Playing = {currentlyHoveredVideo}

\* C6: after a frame in which the pointer ray hit no interactive surface,
\* nothing is hovered and the panel is hidden, whatever was hovered before.
C6_NoHitClearsHover ==
    (hist.frames > 0 /\ hist.lastHit = "none") =>
        (currentlyHoveredVideo = "none" /\ infoPanel.display = "none")

\* a frame without a hit has just ended a hover
C6_HoverJustLost ==
    /\ hist.lastHit = "none"
    /\ Len(hist.frameReqs) = 1
    /\ hist.frameReqs[1][1] = "pause"
    /\ currentlyHoveredVideo = "none"
    /\ infoPanel.display = "none"
    /\ infoPanel.text # "placeholder"

\* C7: a frame without a hit requests a pause of the video that was hovered,
\* once, in the frame in which hover is lost; a frame without a hit that
\* starts with nothing hovered requests nothing and changes no video.
C7_PauseOnceOnLoss ==
    [][ (FrameStep /\ hist'.lastHit = "none") =>
            IF currentlyHoveredVideo # "none"
            THEN /\ hist'.frameReqs = << <<"pause", currentlyHoveredVideo>> >>
                 /\ video'[currentlyHoveredVideo].paused
                 /\ currentlyHoveredVideo' = "none"
            ELSE /\ hist'.frameReqs = << >>
                 /\ video' = video ]_vars

\* the frame after the one that lost hover also hit nothing
C7_QuietFrameAfterLoss ==
    /\ hist.afterLoss
    /\ hist.frameReqs = << >>
    /\ currentlyHoveredVideo = "none"

\* C8 as stated: every frame either leaves the scroll velocity at 0 or makes
\* it smaller, also while a touch drag is flagged as in progress and for any
\* frame time, so that it is 0 after a bounded number of frames.
C8_EveryFrameDecays ==
    [][ FrameStep =>
            (scrollVelocityX' = 0 \/ Abs(scrollVelocityX') < Abs(scrollVelocityX)) ]_vars

\* C8: while no touch drag is flagged, every frame, for any frame time, sets
\* the scroll velocity to 0 or shrinks it by the damping factor at least, so
\* that without further input it is 0 after a bounded number of frames.
C8_DecaysWithoutDrag ==
    [][ (FrameStep /\ ~isTouching) =>
            \/ scrollVelocityX' = 0
            \/ /\ Abs(scrollVelocityX') < Abs(scrollVelocityX)
               /\ Abs(scrollVelocityX') * scrollDampingDen
                      <= Abs(scrollVelocityX) * scrollDampingNum ]_vars

\* a wheel impulse has decayed over several frames and was then set to 0
C8_DecayedToZero ==
    /\ hist.snapped
    /\ scrollVelocityX = 0
    /\ ~isTouching
    /\ hist.ticks = MaxTicks
    /\ variant = "main"

\* C9: when resume() was rejected or playing the ambient sound threw, and the
\* camera is loaded, the page is Ready and the frame loop was started.
C9_AudioFailureNotFatal ==
    ((hist.resumeRejected \/ hist.ambientThrew) /\ isCameraLoaded /\ ~tornDown
        /\ pendingResume = 0) =>
        (sceneReady /\ hist.loopStarts = 1)

\* C10: a reported percentage is round(itemsLoaded / itemsTotal * 100) and
\* lies in 0..100; when the whole set has completed, 100 has been reported,
\* and, no load having failed, once the reveal timer has run the affordance
\* is visible.
C10_ProgressPercent ==
    /\ LET l == hist.reported[1]
           t == hist.reported[2]
           pc == hist.reported[3]
       IN  /\ 0 <= l /\ l <= t /\ t > 0
           /\ pc \in 0..100
           /\ 2 * t * pc <= 200 * l + t
           /\ 200 * l + t < 2 * t * (pc + 1)
    /\ progressText[1] = "percent" => progressText[2] \in 0..100
    /\ hist.completed => hist.hundred
    /\ (hist.completed /\ revealTimers = 0 /\ ~hist.failed) =>
           (buttonDisplay = "block" /\ progressDisplay = "none")

\* the whole set of three items has completed without a failure and the
\* affordance has been revealed
C10_CompletedAndRevealed ==
    /\ hist.completed
    /\ ~hist.failed
    /\ hist.reported = << 3, 3, 100 >>
    /\ revealTimers = 0
    /\ buttonDisplay = "block"
    /\ hist.clicks = 0

\* a step that runs the body of animate with frame time `delta`
FrameWith(delta) ==
    /\ FrameStep
    /\ \E ok \in BOOLEAN : Tick(delta, ok) \/ (delta = 0 /\ FirstFrame(ok))

StrictlyInside(pos) ==
    /\ minCameraX < pos[1] /\ pos[1] < maxCameraX
    /\ minCameraZ < pos[3] /\ pos[3] < maxCameraZ

\* C11: a wheel event in the Ready state adds deltaY * scrollSensitivity to the
\* scroll velocity and moves nothing (100 px at 0.01 add 1.0); a frame with no
\* touch drag whose velocity step stays inside the box moves the camera by
\* velocity * deltaTime along the right axis and leaves the velocity at the
\* pre-frame velocity times the damping factor (1.0 becomes 0.75).
C11_WheelImpulseThenDamping ==
    /\ [][ \A deltaY \in WheelSet :
             (Wheel(deltaY) /\ isCameraLoaded /\ sceneReady) =>
                 /\ scrollVelocityX' = scrollVelocityX + deltaY * scrollSensitivity
                 /\ variant = "main" => scrollVelocityX' = scrollVelocityX + deltaY
                 /\ camera' = camera ]_vars
    /\ [][ \A delta \in DeltaSet :
             LET base == WasdMove(camera.pos, camera.fwd, keyStates, delta)
                 pot  == VAdd(base, VScale(RightOf(camera.fwd), scrollVelocityX * delta))
             IN  (/\ FrameWith(delta)
                  /\ ~isTouching
                  /\ Abs(scrollVelocityX) > scrollEpsilon
                  /\ StrictlyInside(pot)) =>
                     /\ camera'.pos = pot
                     /\ Abs(scrollDampingDen * scrollVelocityX'
                              - scrollDampingNum * scrollVelocityX) < scrollDampingDen
                     /\ Abs(scrollVelocityX') <= Abs(scrollVelocityX)
                     /\ (variant = "main" /\ scrollVelocityX = 10000) =>
                            scrollVelocityX' = 7500 ]_vars

\* one wheel notch of 100 px, then one frame of 0.1 s from the origin
C11_NotchThenFrame ==
    /\ variant = "main"
    /\ hist.inputs = 1
    /\ hist.ticks = 1
    /\ scrollVelocityX = 7500
    /\ camera.pos[1] = 5 * WheelNotch * DeltaShort
    /\ camera.pos[3] = 0
    /\ ~isTouching

\* C12: a frame with a key held, scroll velocity 0, whose key step would pass
\* a bound leaves the camera exactly on that bound (x = 49.9 stepping toward
\* +x ends at x = 50), and leaves the key flags and the scroll velocity as
\* they were.
C12_KeyStepClampsToBound ==
    [][ \A delta \in DeltaSet :
          LET pot == WasdPotential(camera.pos, camera.fwd, keyStates, delta)
          IN  (FrameWith(delta) /\ keyStates # {} /\ scrollVelocityX = 0) =>
                  /\ pot[1] > maxCameraX => camera'.pos[1] = maxCameraX
                  /\ pot[1] < minCameraX => camera'.pos[1] = minCameraX
                  /\ pot[3] > maxCameraZ => camera'.pos[3] = maxCameraZ
                  /\ pot[3] < minCameraZ => camera'.pos[3] = minCameraZ
                  /\ keyStates' = keyStates
                  /\ scrollVelocityX' = 0 ]_vars

\* C13: at the end of every frame that shows the caption panel, the panel's
\* rectangle lies within the viewport: 0 <= left, 0 <= top,
\* left + width <= viewport width and top + height <= viewport height.
C13_PanelInsideViewport ==
    [][ (FrameStep /\ infoPanel'.display = "block") =>
            LET box == PanelBox(infoPanel')
            IN  /\ 0 <= infoPanel'.left
                /\ 0 <= infoPanel'.top
                /\ infoPanel'.left + box[1] <= viewport'[1]
                /\ infoPanel'.top + box[2] <= viewport'[2] ]_vars

\* C14: the hover decision of a frame is taken from the camera position the
\* same frame's navigation update produces: the surface recorded as hit is the
\* one a ray from the post-navigation pose meets.
C14_HoverUsesPostNavigationPose ==
    [][ FrameStep =>
            hist'.lastHit = Intersected(mouse.ndc, camera'.pos, camera.fwd) ]_vars

\* C15: once the page has received the teardown signal, no step runs the body
\* of animate or schedules a further frame, whatever gesture arrives, and
\* every video created for a surface is disposed: not sampled, source released.
C15_NothingRunsAfterTeardown ==
    [][ tornDown' =>
            /\ hist'.frames = hist.frames
            /\ rafPending' <= rafPending
            /\ ~callPending'
            /\ \A m \in videoPlanes :
                   video'[m].exists => (~video'[m].sampling /\ ~video'[m].src) ]_vars

\* a video whose source has been released by dispose
Disposed(m) == video[m].exists /\ ~video[m].src

\* C16: disposing a video twice leaves it as after the first time, a disposed
\* video is not sampled, and no later play or pause request, the hover
\* arbiter's included, makes a disposed video play.
C16_DisposeIsFinal ==
    /\ \A m \in videoPlanes :
           DisposedVideo(DisposedVideo(video[m], m), m) = DisposedVideo(video[m], m)
    /\ \A m \in videoPlanes :
           Disposed(m) => (video[m].paused /\ ~video[m].sampling)

Ready == sceneReady /\ isCameraLoaded /\ overlayHidden

AffordanceVisible == buttonDisplay = "block" /\ ~overlayHidden

LoopsRunning == rafPending + (IF callPending THEN 1 ELSE 0)

\* C17: from Ready, no step other than leaving the page (asset events started,
\* progressed, completed or failed, unlock gestures and their continuations
\* included) leaves Ready, starts the loop again or makes the enter affordance
\* visible; and in Ready each manager callback (started, progressed, completed
\* with its reveal timer, failed) and startExperience would leave the page
\* Ready with the overlay hidden.
C17_ReadyIsTerminal ==
    /\ [][ (Ready /\ ~tornDown') =>
              /\ Ready'
              /\ ~AffordanceVisible'
              /\ hist'.readyCount = hist.readyCount
              /\ hist'.loopStarts = hist.loopStarts
              /\ LoopsRunning' = LoopsRunning ]_vars
    /\ [](Ready =>
              \A q \in { itemStart(Page), itemEnd(Page), itemError(Page),
                          onLoadTimeout(onLoad(Page)), startExperience(Page) } :
                  /\ q.sceneReady /\ q.overlayHidden
                  /\ q.callPending = callPending
                  /\ q.hist.readyCount = hist.readyCount)

\* the click reached Ready at once, and afterwards decoding the sound failed
C17_LateFailureInReady ==
    /\ Ready
    /\ ~tornDown
    /\ hist.fulfilled = 0 /\ ~hist.resumeRejected /\ pendingResume = 0
    /\ audioStage = "failed"
    /\ progressText = <<"error", 0>>
    /\ hist.frames > 0
    /\ hist.readyCount = 1

ClickStep == hist'.clicks = hist.clicks + 1

\* a step in which a continuation of listener.context.resume() runs
ContinuationStep == pendingResume' = pendingResume - 1

\* C19: with a loaded camera, a gesture with the audio context running makes
\* the page Ready in the same step and marks audio unlocked; with the context
\* suspended the page is Ready as soon as resume() has settled (fulfilled: audio
\* marked unlocked; rejected, in main.js: page Ready all the same); with the
\* context closed the gesture makes the page Ready in the same step, does not
\* mark audio unlocked and does not start the ambient sound.
C19_AllContextStates ==
    /\ [][ (ClickStep /\ isCameraLoaded /\ listener /\ ctxState = "running") =>
               (sceneReady' /\ audioContextResumed' /\ pendingResume' = pendingResume) ]_vars
    /\ [][ (ClickStep /\ isCameraLoaded /\ listener /\ ctxState = "suspended") =>
               (pendingResume' = pendingResume + 1 /\ sceneReady' = sceneReady
                /\ audioContextResumed' = audioContextResumed) ]_vars
    /\ [][ (ContinuationStep /\ isCameraLoaded /\ ctxState' = "running") =>
               (sceneReady' /\ audioContextResumed') ]_vars
    /\ [][ (ContinuationStep /\ isCameraLoaded /\ ctxState' = "suspended"
              /\ variant = "main") =>
               (sceneReady' /\ audioContextResumed' = audioContextResumed) ]_vars
    /\ [][ (ClickStep /\ isCameraLoaded /\ listener /\ ctxState = "closed") =>
               /\ sceneReady'
               /\ audioContextResumed' = audioContextResumed
               /\ soundPlaying' = soundPlaying
               /\ hist'.ambientStarts = hist.ambientStarts ]_vars
    /\ []((ctxState = "closed" /\ sceneReady) => (~audioContextResumed /\ ~soundPlaying))

\* Ready was reached with a closed audio context
C19_ReadyWithClosedContext ==
    /\ ctxState = "closed"
    /\ Ready
    /\ hist.frames > 0
    /\ ~audioContextResumed
    /\ ~soundPlaying
    /\ backgroundSound

\* C20: once the model-load callback has run, isCameraLoaded is true and the
\* audio listener exists, whether or not the model file held a camera.
C20_CameraAfterModelLoad ==
    modelStage = "loaded" => (isCameraLoaded /\ listener /\ camera.src # "none")

\* a step of the resize listener
ResizeStep == viewport' # viewport

\* C21: the resize listener runs in any readiness state; with no camera loaded
\* it leaves the camera record alone, with a camera loaded it sets the aspect
\* to the new width and height; it changes neither the readiness state, nor
\* the input state, nor the hover state, nor the camera's position.
C21_ResizeOnlySetsAspect ==
    [][ResizeStep =>
           /\ ~isCameraLoaded => camera' = camera
           /\ isCameraLoaded =>
                  /\ camera'.aspect = viewport'
                  /\ camera'.pos = camera.pos
                  /\ camera'.fwd = camera.fwd
                  /\ camera'.src = camera.src
           /\ UNCHANGED << isCameraLoaded, sceneReady, overlayHidden, buttonDisplay,
                           progressText, progressDisplay, audioContextResumed,
                           rafPending, callPending, tornDown >>
           /\ hist'.cameraError = hist.cameraError
           /\ hist'.failed = hist.failed
           /\ UNCHANGED << keyStates, scrollVelocityX, isTouching, touchStartY,
                           touches, mouse >>
           /\ UNCHANGED << currentlyHoveredVideo, video, infoPanel >>]_vars

\* the window has been resized, and frames run with a loaded camera that
\* carries the new aspect
C21_ResizedThenLoaded ==
    /\ viewport = << 200, 100 >>
    /\ hist.inputs = 1
    /\ isCameraLoaded
    /\ camera.aspect = viewport
    /\ hist.frames > 0

\* what the ray of the coming frame resolves to
Resolved == Intersected(mouse.ndc, camera.pos, camera.fwd)

\* a frame whose play request for the resolved surface was refused
RefusedStep ==
    /\ FrameStep
    /\ hist'.frameReqs # << >>
    /\ hist'.frameReqs[Len(hist'.frameReqs)] = << "play", Resolved >>
    /\ video'[Resolved].paused

\* C22: a refused play request stays with its surface.  The frame that issued
\* it completes (hover state set to the resolved surface, panel shown, camera
\* moved, next frame requested) and the loop keeps running; while the refused
\* surface stays hovered no request is issued for it again; and a later hover
\* of another surface pauses the refused one and issues a play request for
\* the new one.
C22_PlayFailureIsolated ==
    /\ [](hist.refused # "none" /\ ~tornDown =>
              (sceneReady /\ LoopsRunning = 1))
    /\ [][RefusedStep =>
              /\ currentlyHoveredVideo' = Resolved
              /\ infoPanel'.display = "block"
              /\ rafPending' = 1
              /\ \E delta \in DeltaSet :
                     LET nav == NavigationStep(camera.pos, camera.fwd, keyStates,
                                               scrollVelocityX, isTouching, delta)
                     IN  camera'.pos = nav.pos /\ scrollVelocityX' = nav.vel]_vars
    /\ [][(FrameStep /\ Resolved # "none" /\ Resolved = currentlyHoveredVideo
               /\ video[Resolved].paused) =>
              /\ hist'.frameReqs = << >>
              /\ video' = video
              /\ currentlyHoveredVideo' = currentlyHoveredVideo]_vars
    /\ [][(FrameStep /\ currentlyHoveredVideo # "none"
               /\ video[currentlyHoveredVideo].paused
               /\ Resolved \notin {"none", currentlyHoveredVideo}) =>
              /\ hist'.frameReqs = << << "pause", currentlyHoveredVideo >>,
                                      << "play", Resolved >> >>
              /\ currentlyHoveredVideo' = Resolved]_vars

\* one surface refused to play, the pointer moved on, and the next surface
\* plays
C22_NextSurfacePlays ==
    /\ hist.refused # "none"
    /\ currentlyHoveredVideo \notin {"none", hist.refused}
    /\ ~video[currentlyHoveredVideo].paused
    /\ video[hist.refused].paused
    /\ hist.frameReqs = << << "pause", hist.refused >>, << "play", currentlyHoveredVideo >> >>
    /\ rafPending = 1
    /\ ~tornDown

\* the requests of kind k in a sequence of requests
OfKind(reqs, k) == { i \in 1..Len(reqs) : reqs[i][1] = k }

\* C23: in the frame in which the ray resolves to a surface other than the
\* hovered one, a play request is issued for it exactly if its element is
\* muted or audio is unlocked, and the hover state becomes that surface either
\* way; in a frame in which the ray resolves to the hovered surface nothing is
\* requested and no element changes.  The same holds of the arbitration for an
\* element that is not muted: entered while audio is locked it gets no play
\* request, neither then nor in a following frame after audio was unlocked.
C23_OnePlayPerHoverEntry ==
    /\ [][(FrameStep /\ Resolved \notin {"none", currentlyHoveredVideo}) =>
              /\ currentlyHoveredVideo' = Resolved
              /\ Cardinality(OfKind(hist'.frameReqs, "play")) <= 1
              /\ (<< "play", Resolved >> \in { hist'.frameReqs[i] :
                                                 i \in 1..Len(hist'.frameReqs) })
                     <=> (audioContextResumed \/ video[Resolved].muted)]_vars
    /\ [][(FrameStep /\ Resolved # "none" /\ Resolved = currentlyHoveredVideo) =>
              /\ hist'.frameReqs = << >>
              /\ video' = video
              /\ currentlyHoveredVideo' = Resolved]_vars
    /\ [](\A hit \in videoMeshes, muted \in BOOLEAN, resumed \in BOOLEAN, ok \in BOOLEAN :
              hit # currentlyHoveredVideo =>
                  LET vid == [video EXCEPT ![hit].muted = muted]
                      entry == HoverStep(vid, currentlyHoveredVideo, hit, resumed, ok)
                      stay == HoverStep(entry.video, entry.hovered, hit, TRUE, TRUE)
                  IN  /\ entry.hovered = hit
                      /\ (OfKind(entry.reqs, "play") # {}) <=> (muted \/ resumed)
                      /\ ~(muted \/ resumed) => entry.video[hit].paused
                      /\ stay.reqs = << >>
                      /\ stay.video = entry.video
                      /\ stay.hovered = hit)

\* a page that became Ready with audio locked and was unlocked by a later
\* gesture, in a frame that found the pointer on the surface it already hovers
C23_HoveredAcrossUnlock ==
    /\ variant = "main"
    /\ hist.resumeRejected
    /\ audioContextResumed
    /\ currentlyHoveredVideo # "none"
    /\ hist.lastHit = currentlyHoveredVideo
    /\ hist.frameReqs = << >>
    /\ ~video[currentlyHoveredVideo].paused
    /\ hist.frames >= 2

\* C24: in a frame in which the ray resolves to a surface B while another
\* surface A is hovered, the first request of the frame is a pause of A, it is
\* the only pause, every play request comes after it and is for B, A is paused
\* and the hover state is B after the frame; in a frame that starts with
\* nothing hovered no pause is requested.
C24_PauseOldBeforePlayNew ==
    /\ [][(FrameStep /\ currentlyHoveredVideo # "none"
               /\ Resolved \notin {"none", currentlyHoveredVideo}) =>
              LET reqs == hist'.frameReqs
              IN  /\ Len(reqs) >= 1
                  /\ reqs[1] = << "pause", currentlyHoveredVideo >>
                  /\ OfKind(reqs, "pause") = {1}
                  /\ \A i \in OfKind(reqs, "play") : i > 1 /\ reqs[i][2] = Resolved
                  /\ video'[currentlyHoveredVideo].paused
                  /\ currentlyHoveredVideo' = Resolved]_vars
    /\ [][(FrameStep /\ currentlyHoveredVideo = "none") =>
              /\ OfKind(hist'.frameReqs, "pause") = {}
              /\ \A m \in videoPlanes : video'[m].paused = video[m].paused
                                        \/ m = Resolved]_vars

\* with sampled textures, hover went from a playing surface to the other one
C24_SwitchedSampledSurface ==
    /\ isSafari
    /\ currentlyHoveredVideo # "none"
    /\ \E a \in videoMeshes \ {currentlyHoveredVideo} :
           /\ hist.frameReqs = << << "pause", a >>, << "play", currentlyHoveredVideo >> >>
           /\ video[a].paused
    /\ ~video[currentlyHoveredVideo].paused
    /\ ~tornDown

\* the position after the key step of a frame of length delta, and the
\* position the velocity step of that frame aims at
KeyStepped(delta) == WasdMove(camera.pos, camera.fwd, keyStates, delta)
ScrollTarget(delta) ==
    VAdd(KeyStepped(delta), VScale(RightOf(camera.fwd), scrollVelocityX * delta))

\* C25: in a frame whose velocity step aims outside the box on x or z, the
\* camera ends at the aimed position clamped to the box and the velocity is 0
\* afterwards; and no frame turns a positive velocity negative or a negative
\* one positive.
C25_CrossingClampsAndStops ==
    /\ [][\A delta \in DeltaSet :
              (FrameWith(delta) /\ Abs(scrollVelocityX) > scrollEpsilon
                   /\ ~InBounds(ScrollTarget(delta))) =>
                  /\ camera'.pos[1] = clampX(ScrollTarget(delta)[1])
                  /\ camera'.pos[3] = clampZ(ScrollTarget(delta)[3])
                  /\ scrollVelocityX' = 0]_vars
    /\ [][FrameStep => scrollVelocityX * scrollVelocityX' >= 0]_vars

\* C26: in a frame of main.js whose velocity step aims at a position inside
\* the box, bounds included, the camera ends exactly at that position and the
\* velocity is not zeroed; this includes a camera that rests on a bound of an
\* axis along which the step does not move outward.
C26_InBoundsStepKeepsVelocity ==
    [][\A delta \in DeltaSet :
           (variant = "main" /\ FrameWith(delta) /\ Abs(scrollVelocityX) > scrollEpsilon
                /\ InBounds(ScrollTarget(delta))) =>
               /\ camera'.pos = ScrollTarget(delta)
               /\ scrollVelocityX' # 0]_vars

\* C27: a frame that runs while a touch drag is flagged leaves the velocity as
\* it is (or zeroes it, at the threshold or at a boundary) and never multiplies
\* it by the damping factor; the flag is down whenever no finger is on the
\* canvas; and once it is down, every frame with |velocity| above the threshold
\* whose step is applied multiplies the velocity by the damping factor.
C27_DampingSuspendedDuringDrag ==
    /\ [](touches = << >> => ~isTouching)
    /\ [][(FrameStep /\ isTouching) =>
              /\ scrollVelocityX' \in {scrollVelocityX, 0}
              /\ \A delta \in DeltaSet :
                     (FrameWith(delta) /\ Abs(scrollVelocityX) > scrollEpsilon
                          /\ StrictlyInside(ScrollTarget(delta))) =>
                         scrollVelocityX' = scrollVelocityX]_vars
    /\ [][\A delta \in DeltaSet :
              (FrameWith(delta) /\ ~isTouching /\ Abs(scrollVelocityX) > scrollEpsilon
                   /\ StrictlyInside(ScrollTarget(delta))) =>
                  /\ Abs(scrollDampingDen * scrollVelocityX'
                           - scrollDampingNum * scrollVelocityX) < scrollDampingDen
                  /\ Abs(scrollVelocityX') < Abs(scrollVelocityX)]_vars

\* a drag gave the camera a velocity, a frame moved the camera by it without
\* damping, the finger left, and the next frame damped the velocity
C27_DampedAfterDragEnded ==
    /\ variant = "main"
    /\ touches = << >>
    /\ ~isTouching
    /\ hist.inputs = 2
    /\ hist.ticks = 2
    /\ scrollVelocityX = -3
    /\ camera.pos[1] = -(2 * 5 * TouchFar * DeltaShort)

\* C28: a frame that starts with |velocity| at or below the threshold sets the
\* velocity to 0 and moves the camera by its key step only; hence a velocity
\* other than 0 after a frame comes from a velocity above the threshold before
\* it.
C28_SnapToZeroBelowEpsilon ==
    /\ [][\A delta \in DeltaSet :
              (FrameWith(delta) /\ Abs(scrollVelocityX) <= scrollEpsilon) =>
                  /\ scrollVelocityX' = 0
                  /\ camera'.pos = KeyStepped(delta)]_vars
    /\ [][FrameStep =>
              (scrollVelocityX' = 0 \/ Abs(scrollVelocityX) > scrollEpsilon)]_vars

\* a fine wheel impulse of 0.0003 decayed to 0.0002 and 0.0001 while it moved
\* the camera, and the third frame set it to 0 without moving the camera
C28_SnappedAtThreshold ==
    /\ variant = "main"
    /\ hist.snapped
    /\ scrollVelocityX = 0
    /\ hist.inputs = 1
    /\ hist.ticks = 3
    /\ keyStates = {}
    /\ camera.pos[1] = 5 * DeltaShort * (WheelFine + Damped(WheelFine))

\* C29: no frame changes the camera's y coordinate, whatever keys are held,
\* whatever the scroll velocity and the frame time, and whatever direction the
\* camera looks in.
C29_CameraHeightFixed ==
    [][FrameStep => camera'.pos[2] = camera.pos[2]]_vars

\* C30: once the model-load callback has returned, the set of surfaces the ray
\* is intersected with, and the set of surfaces that have a video element,
\* neither grow nor shrink, with direct and with sampled textures.
C30_SurfaceSetFixedAtLoad ==
    [][modelStage = "loaded" =>
           /\ videoMeshes' = videoMeshes
           /\ videoElements' = videoElements]_vars

\* C31: at the end of every frame the caption panel is displayed exactly when a
\* video is hovered, and then shows the caption of that video's surface; the
\* panel is moved only by a frame that ends with a video hovered, and nothing
\* but a frame changes the panel.
C31_PanelFollowsHover ==
    [][ IF FrameStep
        THEN /\ (infoPanel'.display = "block") <=> (currentlyHoveredVideo' # "none")
             /\ infoPanel'.display = "block" =>
                    infoPanel'.text = infoPanelData[currentlyHoveredVideo']
             /\ currentlyHoveredVideo' = "none" =>
                    /\ infoPanel'.left = infoPanel.left
                    /\ infoPanel'.top = infoPanel.top
        ELSE infoPanel' = infoPanel ]_vars

\* a later frame has placed the panel next to the pointer with the caption of
\* the hovered surface
C31_CaptionShownAtPointer ==
    /\ hist.frames >= 2
    /\ currentlyHoveredVideo # "none"
    /\ infoPanel.display = "block"
    /\ infoPanel.text = infoPanelData[currentlyHoveredVideo]
    /\ infoPanel.left = mouse.px[1] + infoPanelOffset[1]
    /\ infoPanel.left > 0

\* C32: for a sampled video, a run of the sampling callback leaves the next
\* one requested whether the video is paused or playing; sampling stops only
\* in the step that disposes the video (page teardown) or in its error event,
\* starts only when its metadata arrives, and no frame of animate (with the
\* pause and play requests of hover arbitration) starts or stops it.
C32_SamplingRunsUntilDisposedOrError ==
    [][ \A m \in videoPlanes :
          /\ (hist'.sampled # hist.sampled /\ video[m].sampling) => video'[m].sampling
          /\ (video[m].sampling /\ ~video'[m].sampling) =>
                 \/ tornDown' /\ ~tornDown
                 \/ video[m].metadata = "loaded" /\ video'[m].metadata = "error"
          /\ (~video[m].sampling /\ video'[m].sampling) =>
                 (video[m].metadata = "pending" /\ video'[m].metadata = "loaded")
          /\ FrameStep => video'[m].sampling = video[m].sampling ]_vars

\* the sampling callback has run on a paused video and on a playing one, and
\* the hovered video, started by a frame, is still being sampled
C32_SampledPausedAndPlaying ==
    /\ hist.sampled = {"paused", "playing"}
    /\ currentlyHoveredVideo # "none"
    /\ video[currentlyHoveredVideo].sampling
    /\ ~video[currentlyHoveredVideo].paused
    /\ hist.frames >= 2

\* a wheel or touch event that the handlers do not ignore
MotionAccepted == isCameraLoaded /\ sceneReady

\* C33: in main.js an accepted wheel event with deltaY = d adds d times the
\* sensitivity to scrollVelocityX, and an accepted drag step that measures a
\* displacement d subtracts d times the same sensitivity: equal magnitude,
\* opposite sign, both relative to the velocity the event found.
C33_WheelAndTouchOpposite ==
    [][ variant = "main" =>
          /\ scrollSensitivity = touchScrollSensitivity
          /\ \A d \in WheelSet :
                 (Wheel(d) /\ MotionAccepted) =>
                     scrollVelocityX' - scrollVelocityX = d * touchScrollSensitivity
          /\ \A i \in 1..MaxFingers, y \in TouchSet :
                 (onTouchMove(i, y) /\ MotionAccepted /\ isTouching /\ Len(touches) = 1) =>
                     scrollVelocityX' - scrollVelocityX
                         = 0 - (y - touchStartY) * touchScrollSensitivity
          /\ \A d \in WheelSet :
                 WheelVelocity(scrollVelocityX, d) - scrollVelocityX
                     = scrollVelocityX - TouchVelocity(scrollVelocityX, d) ]_vars

\* a drag moved the camera with the velocity of its first step, and a second
\* step back by the same displacement has cancelled that velocity
C33_SwipeBackCancels ==
    /\ scenario = "touch"
    /\ hist.inputs = 3
    /\ isTouching
    /\ touches = << 0 >>
    /\ scrollVelocityX = 0
    /\ camera.pos[3] = 0
    /\ camera.pos[1] < 0

C35_TouchDeltaIsDisplacement ==
    [][ \A i \in 1..MaxFingers, y \in TouchSet :
          (onTouchMove(i, y) /\ MotionAccepted /\ isTouching /\ Len(touches) = 1) =>
              scrollVelocityX' - scrollVelocityX
                  = 0 - (y - touches[i]) * touchScrollSensitivity ]_vars

\* C36: a click on the unlock button while no audio listener exists leaves
\* sceneReady false, audio locked, the ambient sound, the audio context and
\* its pending resume requests as they are, starts no frame loop, and does not
\* hide the button or the overlay; only the button's label changes.
C36_ClickWithoutListenerInert ==
    [][ (ClickStep /\ ~listener) =>
          /\ ~sceneReady /\ ~sceneReady'
          /\ ~audioContextResumed /\ ~audioContextResumed'
          /\ UNCHANGED << soundPlaying, ctxState, pendingResume, listener,
                          isCameraLoaded, rafPending, callPending >>
          /\ hist'.loopStarts = hist.loopStarts
          /\ hist'.ambientStarts = hist.ambientStarts
          /\ UNCHANGED << buttonHidden, buttonDisplay, overlayHidden >>
          /\ ~buttonHidden'
          /\ buttonText' = "Error: Audio not ready" ]_vars

\* the button was clicked twice after the model had failed to load, and is
\* still shown with the error label
C36_ClickedWithoutListener ==
    /\ ~listener
    /\ hist.clicks = MaxClicks
    /\ buttonText = "Error: Audio not ready"
    /\ buttonDisplay = "block"
    /\ ~buttonHidden
    /\ ~sceneReady
    /\ rafPending = 0

\* C37: the ambient sound plays only while audioContextResumed is true; it is
\* started only by an unlock gesture or a resume continuation; and
\* audioContextResumed turns true only in a click that finds the audio context
\* running or in the fulfilment of resume(), never in an asset event, an input
\* event or a frame.
C37_AmbientOnlyAfterUnlock ==
    /\ [](soundPlaying => audioContextResumed)
    /\ [][ (soundPlaying' /\ ~soundPlaying) =>
               (audioContextResumed' /\ (ClickStep \/ ContinuationStep)) ]_vars
    /\ [][ (audioContextResumed' /\ ~audioContextResumed) =>
               \/ ClickStep /\ listener /\ ctxState = "running"
               \/ ContinuationStep /\ hist'.fulfilled = hist.fulfilled + 1 ]_vars

\* resume() was fulfilled after one click, the ambient sound was started once
\* and frames have run since
C37_AmbientAfterResume ==
    /\ soundPlaying
    /\ audioContextResumed
    /\ hist.clicks = 1
    /\ hist.fulfilled = 1
    /\ hist.ambientStarts = 1
    /\ hist.frames >= 2

=============================================================================
